---- MODULE Spec2Model ----
(***************************************************************************)
(* Model of docker-debian-management:                                      *)
(*   update_images_to_new_release.py        (release-sync workflow)        *)
(*   docker_build_from_latest_tag.py        (build/publish, host or local) *)
(*   docker_build_from_latest_github_tag.py (build/publish, host only)     *)
(*                                                                         *)
(* Texts are sequences of one-character strings.  Python's 0-based,        *)
(* end-exclusive slices are kept: a match is [start, end) as re.Match      *)
(* reports it.                                                             *)
(***************************************************************************)
EXTENDS Integers, Sequences, FiniteSets, TLC

\* ------------------------------------------------------------------ bounds
NRepos == 2
MaxRuns == 2
MaxPieces == 6
MaxMarkers == 3
MaxTime == 5

\* --------------------------------------------------------------- variables
VARIABLES
    pc,            \* position of update_fa_repos (release sync)
    run,           \* number of invocations of update_fa_repos so far
    tag_date,      \* parameter tag_date
    push,          \* parameter push
    repo,          \* loop variable: index into repos
    content,       \* local: the Dockerfile text being rewritten
    offset,        \* local: scan offset of the current loop
    match,         \* local: result of the last re.search
    diff,          \* local: whether git diff against HEAD was non-empty
    tag,           \* local: result of get_tag, {} for None
    work,          \* per repository: working tree, file -> content
    index,         \* per repository: staging area, file -> content
    commits,       \* per repository: history, a sequence of trees
    tags,          \* per repository: local tags, set of [name, commit]
    remoteBranch,  \* per repository: commit the remote branch points at
    remoteTags,    \* per repository: tags of the remote
    made,          \* per repository: for each commit step, whether it committed
    script,        \* build/publish: which of the two build scripts runs
    github_access_token,  \* build/publish: whether the parameter is given
    docker_access_token,  \* build/publish: whether the parameter is given
    latest_tag,    \* build/publish local: the resolved marker, {} for None
    markers,       \* per repository: its tags in enumeration order
    timezone,      \* the local time zone of the machine the script runs on
    calls,         \* the resolver and docker calls made so far, in order
    repo_name,     \* build_image_from_*_tag: name of the repository
    docker_login,  \* build_image_from_*_tag: Docker hub account
    github_repo_tag,   \* build_and_push_*: the tag to build from
    image_tag,     \* build_and_push_*: the reference of the built image
    docker_latest_tag, \* push_image_to_dockerhub: latest_tag
    replaced       \* the number of passes through the body of the current loop

syncVars == <<pc, run, tag_date, push, repo, content, offset, match, diff, tag,
              work, index, commits, tags, remoteBranch, remoteTags, made>>

buildVars == <<script, github_access_token, docker_access_token, latest_tag,
               markers, timezone, calls>>

imageVars == <<repo_name, docker_login, github_repo_tag, image_tag,
               docker_latest_tag>>

vars == <<syncVars, buildVars, imageVars, replaced>>

\* ------------------------------------------------------------ text helpers
Digits == {"0", "1", "2", "3", "4", "5", "6", "7", "8", "9"}

Min(S) == CHOOSE x \in S : \A y \in S : x <= y

\* Python s[a:b] for 0 <= a, clamped at the end of s.
Slice(s, a, b) ==
    LET e == IF b > Len(s) THEN Len(s) ELSE b
    IN  IF a >= e THEN <<>> ELSE SubSeq(s, a + 1, e)

\* Python s[a:]
SliceFrom(s, a) == Slice(s, a, Len(s))

\* mutant of CompactPattern: the repetition count is off by one
SevenDigitPattern == [k \in 1..7 |-> "d"]

\* "[0-9]{8}" : eight digits
CompactPattern == [k \in 1..8 |-> "d"]

\* "[0-9]{4}-[0-9]{2}-[0-9]{2}"
IsoPattern == <<"d", "d", "d", "d", "-", "d", "d", "-", "d", "d">>

\* one pattern element against one character
ClassMatch(cls, c) == IF cls = "d" THEN c \in Digits ELSE c = cls

\* the pattern matches s at 0-based position p
MatchAt(pat, s, p) ==
    /\ p + Len(pat) <= Len(s)
    /\ \A k \in 1..Len(pat) : ClassMatch(pat[k], s[p + k])

NoMatch == [found |-> FALSE, start |-> 0, end |-> 0]

\* re.search(pat, s): the leftmost match, as [start, end), or None
re_search(pat, s) ==
    LET starts == {p \in 0..Len(s) : MatchAt(pat, s, p)}
    IN  IF starts = {} THEN NoMatch
        ELSE [found |-> TRUE, start |-> Min(starts),
              end |-> Min(starts) + Len(pat)]

\* f"{tag_date[0:4]}-{tag_date[4:6]}-{tag_date[6:8]}"
TagDateIso(d) ==
    Slice(d, 0, 4) \o <<"-">> \o Slice(d, 4, 6) \o <<"-">> \o Slice(d, 6, 8)

\* mutant of Splice: the offset is not added to match.start()
SpliceStartNoOffset(c, m, off, new) ==
    Slice(c, 0, m.start) \o new \o SliceFrom(c, m.end + off)

\* content[0:match.start() + offset] + new + content[match.end() + offset:]
Splice(c, m, off, new) ==
    Slice(c, 0, m.start + off) \o new \o SliceFrom(c, m.end + off)

\* mutant of NextOffset: the scan goes on one character after the start of
\* the match
NextOffsetPastStart(m, off) == off + m.start + 1

\* mutant of NextOffset: "offset = match.end()" in place of "+="
NextOffsetAssign(m, off) == m.end

\* offset += match.end()
NextOffset(m, off) == off + m.end

\* one scan-and-replace loop, run to completion from (c, off, m)
RECURSIVE ReplaceLoop(_, _, _, _, _)
ReplaceLoop(pat, c, off, m, new) ==
    IF ~m.found THEN c
    ELSE LET c2 == Splice(c, m, off, new)
             o2 == NextOffset(m, off)
         IN  ReplaceLoop(pat, c2, o2, re_search(pat, SliceFrom(c2, o2)), new)

\* the compact pass followed by the ISO pass
Rewrite(t, d) ==
    LET c1 == ReplaceLoop(CompactPattern, t, 0, re_search(CompactPattern, t), d)
    IN  ReplaceLoop(IsoPattern, c1, 0, re_search(IsoPattern, c1), TagDateIso(d))

\* ---------------------------------------------------- fleet and test data
\* the fleet of update_fa_repos; the first NRepos entries are processed
repos == <<"docker-debian-stable-dev-image-base",
           "docker-debian-stable-cpp-image-base",
           "docker-debian-stable-cpp-image-clang",
           "docker-debian-stable-cpp-image-gcc",
           "docker-debian-stable-latex-image",
           "docker-debian-stable-python-image",
           "docker-debian-testing-dev-image-base",
           "docker-debian-testing-cpp-image-base",
           "docker-debian-testing-cpp-image-clang",
           "docker-debian-testing-cpp-image-gcc",
           "docker-debian-testing-python-image">>

Fleet == 1..NRepos

\* update_fa_repos("20230612")
MainTagDate == <<"2", "0", "2", "3", "0", "6", "1", "2">>

\* another 8-digit date, for the claims quantified over the date
OtherTagDate == <<"1", "9", "9", "9", "1", "2", "3", "1">>

\* a recipe with one compact and one ISO date: "x20230101x2023-01-01"
OldRecipe == <<"x", "2", "0", "2", "3", "0", "1", "0", "1", "x",
               "2", "0", "2", "3", "-", "0", "1", "-", "0", "1">>

\* the tracked files of a working copy
Files == {"Dockerfile", "README"}

\* ------------------------------------------- local version-control engine
Tip(r) == Len(commits[r])

HeadTree(r) == commits[r][Tip(r)]

\* git_repo.git.diff(git_repo.head.commit.tree): working tree against HEAD,
\* over all tracked files
git_diff(r) == work[r] # HeadTree(r)

\* index.add([Dockerfile])
index_add(idx, wt) == [idx EXCEPT !["Dockerfile"] = wt["Dockerfile"]]

\* index.commit(...): a commit of the index, parented on the tip
index_commit(hist, idx) == Append(hist, idx)

\* mutant of get_tag: no tag name ever compares equal
get_tag_none(ts, name) == {}

\* get_tag(repo, tag_name): the tag of that name, {} for None
get_tag(ts, name) ==
    LET named == {t \in ts : t.name = name}
    IN  IF named = {} THEN {} ELSE {CHOOSE t \in named : TRUE}

\* git_repo.delete_tag(tag)
delete_tag(ts, t) == ts \ t

\* whether create_tag would find the name taken (git then refuses)
tag_exists(ts, name) == \E t \in ts : t.name = name

\* the tag object create_tag makes: tag_name at the tip
new_tag(name, r) == [name |-> name, commit |-> Tip(r)]

\* push(refspec=":refs/tags/<name>") on the remote's tags
remote_delete(rts, name) == {t \in rts : t.name # name}

\* outcomes of a call of remotes.origin.push: done, refused by the remote
\* (reported in the returned PushInfo, which the script does not read), or
\* raising GitCommandError
PushOutcomes == {"ok", "rejected", "error"}

\* ------------------------------------------------- release sync: actions
\* the loop advances to the next repository, or the function returns
NextIteration ==
    IF repo < NRepos
    THEN repo' = repo + 1 /\ pc' = "read"
    ELSE repo' = repo /\ pc' = "done"

\* update_fa_repos(tag_date, folder, push) is called: a first time, or again
\* after it returned
Invoke ==
    /\ pc \in {"idle", "done"}
    /\ run < MaxRuns
    /\ run' = run + 1
    /\ tag_date' = MainTagDate
    /\ push' \in BOOLEAN
    /\ repo' = 1
    /\ pc' = "read"
    /\ UNCHANGED <<content, offset, match, diff, tag, work, index, commits,
                   tags, remoteBranch, remoteTags, made>>
    /\ UNCHANGED <<buildVars, imageVars, replaced>>

\* open(Dockerfile); content = file.read(); first search of the compact loop
ReadRecipe ==
    /\ pc = "read"
    /\ \E ok \in BOOLEAN :
         IF ok
         THEN /\ content' = work[repo]["Dockerfile"]
              /\ match' = re_search(CompactPattern, work[repo]["Dockerfile"])
              /\ offset' = 0
              /\ replaced' = 0
              /\ pc' = "compact"
         ELSE /\ pc' = "crashed"
              /\ UNCHANGED <<content, match, offset, replaced>>
    /\ UNCHANGED <<run, tag_date, push, repo, diff, tag, work, index, commits,
                   tags, remoteBranch, remoteTags, made>>
    /\ UNCHANGED <<buildVars, imageVars>>

\* one test of "while match" of the compact loop, and its body
CompactStep ==
    /\ pc = "compact"
    /\ IF match.found
       THEN /\ content' = Splice(content, match, offset, tag_date)
            /\ offset' = NextOffset(match, offset)
            /\ match' = re_search(CompactPattern, SliceFrom(content', offset'))
            /\ replaced' = replaced + 1
            /\ pc' = "compact"
       ELSE /\ match' = re_search(IsoPattern, content)
            /\ offset' = 0
            /\ replaced' = 0
            /\ pc' = "iso"
            /\ UNCHANGED content
    /\ UNCHANGED <<run, tag_date, push, repo, diff, tag, work, index, commits,
                   tags, remoteBranch, remoteTags, made>>
    /\ UNCHANGED <<buildVars, imageVars>>

\* one test of "while match" of the ISO loop, and its body
IsoStep ==
    /\ pc = "iso"
    /\ IF match.found
       THEN /\ content' = Splice(content, match, offset, TagDateIso(tag_date))
            /\ offset' = NextOffset(match, offset)
            /\ match' = re_search(IsoPattern, SliceFrom(content', offset'))
            /\ replaced' = replaced + 1
            /\ pc' = "iso"
       ELSE /\ pc' = "write"
            /\ UNCHANGED <<content, offset, match, replaced>>
    /\ UNCHANGED <<run, tag_date, push, repo, diff, tag, work, index, commits,
                   tags, remoteBranch, remoteTags, made>>
    /\ UNCHANGED <<buildVars, imageVars>>

\* open(Dockerfile, 'w'); file.write(content)
WriteRecipe ==
    /\ pc = "write"
    /\ \E ok \in BOOLEAN :
         IF ok
         THEN /\ work' = [work EXCEPT ![repo]["Dockerfile"] = content]
              /\ pc' = "commit"
         ELSE /\ pc' = "crashed"
              /\ UNCHANGED work
    /\ UNCHANGED <<run, tag_date, push, repo, content, offset, match, diff,
                   tag, index, commits, tags, remoteBranch, remoteTags, made>>
    /\ UNCHANGED <<buildVars, imageVars, replaced>>

\* Repo(repo_path); diff; if diff: index.add, index.commit
CommitChanges ==
    /\ pc = "commit"
    /\ \E ok \in BOOLEAN :
         IF ok
         THEN /\ diff' = git_diff(repo)
              /\ index' = IF diff'
                          THEN [index EXCEPT
                                  ![repo] = index_add(index[repo], work[repo])]
                          ELSE index
              /\ commits' = IF diff'
                            THEN [commits EXCEPT
                                    ![repo] = index_commit(@, index'[repo])]
                            ELSE commits
              /\ made' = [made EXCEPT ![repo] = Append(@, diff')]
              /\ pc' = "remove_tag"
         ELSE /\ pc' = "crashed"
              /\ UNCHANGED <<diff, index, commits, made>>
    /\ UNCHANGED <<run, tag_date, push, repo, content, offset, match, tag,
                   work, tags, remoteBranch, remoteTags>>
    /\ UNCHANGED <<buildVars, imageVars, replaced>>

\* tag = get_tag(...); if tag: delete_tag(tag); origin.push(":refs/tags/...")
RemoveExistingTag ==
    /\ pc = "remove_tag"
    /\ tag' = get_tag(tags[repo], TagDateIso(tag_date))
    /\ IF tag' # {}
       THEN /\ tags' = [tags EXCEPT ![repo] = delete_tag(@, tag')]
            /\ \E out \in PushOutcomes :
                 /\ remoteTags' =
                      IF out = "ok"
                      THEN [remoteTags EXCEPT
                              ![repo] = remote_delete(@, TagDateIso(tag_date))]
                      ELSE remoteTags
                 /\ pc' = IF out = "error" THEN "crashed" ELSE "create_tag"
       ELSE /\ pc' = "create_tag"
            /\ UNCHANGED <<tags, remoteTags>>
    /\ UNCHANGED <<run, tag_date, push, repo, content, offset, match, diff,
                   work, index, commits, remoteBranch, made>>
    /\ UNCHANGED <<buildVars, imageVars, replaced>>

\* mutant of TagCommit: the tag is created only when a commit was made
TagCommitIfCommitted ==
    /\ pc = "create_tag"
    /\ \E ok \in BOOLEAN :
         IF ok /\ ~tag_exists(tags[repo], TagDateIso(tag_date))
         THEN /\ tags' = IF diff
                         THEN [tags EXCEPT
                                 ![repo] = @ \cup {new_tag(TagDateIso(tag_date), repo)}]
                         ELSE tags
              /\ IF push
                 THEN pc' = "push_branch" /\ repo' = repo
                 ELSE NextIteration
         ELSE /\ pc' = "crashed"
              /\ UNCHANGED <<tags, repo>>
    /\ UNCHANGED <<run, tag_date, push, content, offset, match, diff, tag,
                   work, index, commits, remoteBranch, remoteTags, made>>
    /\ UNCHANGED <<buildVars, imageVars, replaced>>

\* new_tag = git_repo.create_tag(tag_date_iso, ...); then "if push"
TagCommit ==
    /\ pc = "create_tag"
    /\ \E ok \in BOOLEAN :
         IF ok /\ ~tag_exists(tags[repo], TagDateIso(tag_date))
         THEN /\ tags' = [tags EXCEPT
                            ![repo] = @ \cup {new_tag(TagDateIso(tag_date), repo)}]
              /\ IF push
                 THEN pc' = "push_branch" /\ repo' = repo
                 ELSE NextIteration
         ELSE /\ pc' = "crashed"
              /\ UNCHANGED <<tags, repo>>
    /\ UNCHANGED <<run, tag_date, push, content, offset, match, diff, tag,
                   work, index, commits, remoteBranch, remoteTags, made>>
    /\ UNCHANGED <<buildVars, imageVars, replaced>>

\* mutant of PushBranch: a push that raises takes the new tag back
PushBranchWithRollback ==
    /\ pc = "push_branch"
    /\ \E out \in PushOutcomes :
         /\ remoteBranch' = IF out = "ok"
                            THEN [remoteBranch EXCEPT ![repo] = Tip(repo)]
                            ELSE remoteBranch
         /\ tags' = IF out = "error"
                    THEN [tags EXCEPT
                            ![repo] = delete_tag(@, get_tag(@, TagDateIso(tag_date)))]
                    ELSE tags
         /\ pc' = IF out = "error" THEN "crashed" ELSE "push_tag"
    /\ UNCHANGED <<run, tag_date, push, repo, content, offset, match, diff,
                   tag, work, index, commits, remoteTags, made>>
    /\ UNCHANGED <<buildVars, imageVars, replaced>>

\* git_repo.remotes.origin.push(force=True)
PushBranch ==
    /\ pc = "push_branch"
    /\ \E out \in PushOutcomes :
         /\ remoteBranch' = IF out = "ok"
                            THEN [remoteBranch EXCEPT ![repo] = Tip(repo)]
                            ELSE remoteBranch
         /\ pc' = IF out = "error" THEN "crashed" ELSE "push_tag"
    /\ UNCHANGED <<run, tag_date, push, repo, content, offset, match, diff,
                   tag, work, index, commits, tags, remoteTags, made>>
    /\ UNCHANGED <<buildVars, imageVars, replaced>>

\* git_repo.remotes.origin.push(new_tag): not forced, so the remote refuses
\* a name it already has
PushTag ==
    /\ pc = "push_tag"
    /\ \E out \in PushOutcomes :
         /\ remoteTags' =
              IF out = "ok" /\ ~tag_exists(remoteTags[repo], TagDateIso(tag_date))
              THEN [remoteTags EXCEPT
                      ![repo] = @ \cup {new_tag(TagDateIso(tag_date), repo)}]
              ELSE remoteTags
         /\ IF out = "error"
            THEN pc' = "crashed" /\ repo' = repo
            ELSE NextIteration
    /\ UNCHANGED <<run, tag_date, push, content, offset, match, diff, tag,
                   work, index, commits, tags, remoteBranch, made>>
    /\ UNCHANGED <<buildVars, imageVars, replaced>>

\* ------------------------------------------------------- initial states
\* no image reference is being derived
NoImage ==
    /\ repo_name = <<>>
    /\ docker_login = <<>>
    /\ github_repo_tag = <<>>
    /\ image_tag = <<>>
    /\ docker_latest_tag = <<>>

\* no build script is running
NoBuild ==
    /\ NoImage
    /\ script = "none"
    /\ github_access_token = FALSE
    /\ docker_access_token = FALSE
    /\ latest_tag = {}
    /\ markers = [r \in Fleet |-> <<>>]
    /\ timezone = "UTC"
    /\ calls = <<>>

\* a tree: the content of each tracked file
Tree(d, r) == [f \in Files |-> IF f = "Dockerfile" THEN d ELSE r]

\* the recipe before and after an earlier release sync
RecipeTexts == {OldRecipe, Rewrite(OldRecipe, MainTagDate)}

\* the tag of the previous release, on the first commit
OldReleaseTag == [name |-> TagDateIso(<<"2", "0", "2", "3", "0", "1", "0", "1">>),
                  commit |-> 1]

\* local tags before the run: the release date is untagged, or tagged on
\* the first commit or on the tip
InitialTagSets ==
    {{OldReleaseTag}} \cup
    {{OldReleaseTag, [name |-> TagDateIso(MainTagDate), commit |-> c]} :
       c \in 1..2}

\* README: clean, modified in the working tree, or modified and staged
ReadmeStates == {<<"v1", "v1">>, <<"v1", "v2">>, <<"v2", "v2">>}

\* working copies of two commits whose remote mirrors the local refs
WorkingCopies ==
    {[work |-> Tree(t, rs[2]), index |-> Tree(t, rs[1]),
      commits |-> <<Tree(OldRecipe, "v1"), Tree(t, "v1")>>,
      tags |-> ts, remoteBranch |-> 2, remoteTags |-> ts] :
       t \in RecipeTexts, rs \in ReadmeStates, ts \in InitialTagSets}

\* the working copies a finished release leaves: clean, release date untagged
PlainCopies ==
    {w \in WorkingCopies :
       w.work = w.commits[2] /\ w.index = w.commits[2] /\ w.tags = {OldReleaseTag}}

InitSync ==
    /\ pc = "idle"
    /\ run = 0
    /\ tag_date = MainTagDate
    /\ push = FALSE
    /\ repo = 1
    /\ content = <<>>
    /\ offset = 0
    /\ replaced = 0
    /\ match = NoMatch
    /\ diff = FALSE
    /\ tag = {}
    /\ made = [r \in Fleet |-> <<>>]
    \* any working copy for one repository, a plain one for the others
    /\ \E wc \in [Fleet -> WorkingCopies] :
         /\ Cardinality({r \in Fleet : wc[r] \notin PlainCopies}) <= 1
         /\ work = [r \in Fleet |-> wc[r].work]
         /\ index = [r \in Fleet |-> wc[r].index]
         /\ commits = [r \in Fleet |-> wc[r].commits]
         /\ tags = [r \in Fleet |-> wc[r].tags]
         /\ remoteBranch = [r \in Fleet |-> wc[r].remoteBranch]
         /\ remoteTags = [r \in Fleet |-> wc[r].remoteTags]
    /\ NoBuild

NextSync ==
    \/ Invoke
    \/ ReadRecipe
    \/ CompactStep
    \/ IsoStep
    \/ WriteRecipe
    \/ CommitChanges
    \/ RemoveExistingTag
    \/ TagCommit
    \/ PushBranch
    \/ PushTag

SpecSync == InitSync /\ [][NextSync]_vars

\* ---------------------------------------------- the rewrite on its own
\* recipe texts are built from these pieces; "7" is a digit of no date used
Pieces == {<<"7">>, <<"7", "7">>, <<"7", "7", "7", "7">>, <<"-">>, <<"x">>}

RECURSIVE Flatten(_)
Flatten(ps) == IF ps = <<>> THEN <<>> ELSE Head(ps) \o Flatten(Tail(ps))

Texts == {Flatten(ps) : ps \in UNION {[1..n -> Pieces] : n \in 0..MaxPieces}}

TagDates == {MainTagDate, OtherTagDate}

\* the first repository's Dockerfile holds any text; the loop is at its top
InitRewrite ==
    /\ pc = "read"
    /\ run = 1
    /\ tag_date \in TagDates
    /\ push = FALSE
    /\ repo = 1
    /\ content = <<>>
    /\ offset = 0
    /\ replaced = 0
    /\ match = NoMatch
    /\ diff = FALSE
    /\ tag = {}
    /\ made = [r \in Fleet |-> <<>>]
    /\ \E t \in Texts :
         /\ work = [r \in Fleet |-> Tree(t, "v1")]
         /\ index = [r \in Fleet |-> Tree(t, "v1")]
         /\ commits = [r \in Fleet |-> <<Tree(t, "v1")>>]
    /\ tags = [r \in Fleet |-> {}]
    /\ remoteBranch = [r \in Fleet |-> 1]
    /\ remoteTags = [r \in Fleet |-> {}]
    /\ NoBuild

NextRewrite ==
    \/ ReadRecipe
    \/ CompactStep
    \/ IsoStep

SpecRewrite == InitRewrite /\ [][NextRewrite]_vars

\* the interpreter goes on to the next statement as long as there is one
SpecRewriteFair == SpecRewrite /\ WF_vars(NextRewrite)

\* --------------------------------------------------------- build/publish
\* the two build scripts
LatestTagScript == "docker_build_from_latest_tag"

LatestGithubTagScript == "docker_build_from_latest_github_tag"

\* the tags of a repository, each with the date of its commit
V1 == [name |-> "v1", date |-> 1]

V2 == [name |-> "v2", date |-> 2]

RepoMarkerLists == {<<>>, <<V1>>, <<V1, V2>>, <<V2, V1>>}

\* the tags come from the GitHub host (get_latest_tag, get_latest_github_tag)
\* and not from the local working copy (get_latest_local_tag)
HostMode == script = LatestGithubTagScript \/ github_access_token

\* Times are counted in half hours since the epoch.
HalfHoursPerDay == 48

\* the hour by which daylight saving time shifts the local clock
DstShift == 2

\* the standard UTC offset of Europe/Stockholm (one hour)
StdOffset == 2

\* the instant at which daylight saving time ends in Europe/Stockholm
DstEnd == 48

\* the earliest commit time of the model
TimeBase == 46

\* the machine's time zone: one without and one with daylight saving time
Zones == {"UTC", "Europe/Stockholm"}

\* a datetime.datetime without time zone: <<day, time of day>>
ToDatetime(x) == <<x \div HalfHoursPerDay, x % HalfHoursPerDay>>

\* a <= b on datetime.datetime values
DatetimeLeq(a, b) == a[1] < b[1] \/ (a[1] = b[1] /\ a[2] <= b[2])

\* the offset of local time from UTC at instant u
utcoffset(zone, u) ==
    IF zone = "UTC" THEN 0
    ELSE StdOffset + (IF u < DstEnd THEN DstShift ELSE 0)

\* time.mktime(time.gmtime(t)): the UTC fields of t, whose tm_isdst is 0,
\* read as local standard time
mktime_gmtime(zone, t) == t - (IF zone = "UTC" THEN 0 ELSE StdOffset)

\* datetime.datetime.fromtimestamp(u): the local wall clock at instant u
fromtimestamp(zone, u) == ToDatetime(u + utcoffset(zone, u))

\* commit_date of get_latest_github_tag / get_latest_tag: strptime of the
\* Last-Modified header, a GMT date
host_commit_date(t) == ToDatetime(t)

\* commit_date of get_latest_local_tag
local_commit_date(zone, t) == fromtimestamp(zone, mktime_gmtime(zone, t))

\* the key function handed to max
commit_date(m) ==
    IF HostMode THEN host_commit_date(m.date)
    ELSE local_commit_date(timezone, m.date)

\* max(tags, key=commit_date): the first tag of the greatest commit date
max_by_commit_date(ms) ==
    ms[Min({k \in 1..Len(ms) :
              \A j \in 1..Len(ms) :
                  DatetimeLeq(commit_date(ms[j]), commit_date(ms[k]))})]

\* mutant of resolve_latest: the except clause of the lookup does not return
resolve_latest_except_pass(out, ms) ==
    IF Len(ms) = 0 THEN {} ELSE {max_by_commit_date(ms).name}

\* the value get_latest_tag / get_latest_github_tag / get_latest_local_tag
\* returns, {} for None: out is "no_repo" when the host lookup raised
\* GithubException
resolve_latest(out, ms) ==
    IF out = "no_repo" \/ Len(ms) = 0
    THEN {}
    ELSE {max_by_commit_date(ms).name}

\* one commit_date call per tag, made by max
Lookups(ms) == [k \in 1..Len(ms) |-> [repo |-> repo, cmd |-> "commit_date", ok |-> TRUE]]

\* the call g.get_repo of the host resolvers
RepoLookup(out) ==
    IF HostMode
    THEN <<[repo |-> repo, cmd |-> "get_repo", ok |-> out # "no_repo"]>>
    ELSE <<>>

\* mutant of Publishes: build_and_push_github_tag does not test the credential
PublishesAlways == script = LatestGithubTagScript \/ github_access_token

\* whether a successful build is followed by push_image_to_dockerhub
Publishes ==
    \/ script = LatestGithubTagScript
    \/ script = LatestTagScript /\ github_access_token /\ docker_access_token

\* one more entry of the call log
Logged(cmd, ok) == Append(calls, [repo |-> repo, cmd |-> cmd, ok |-> ok])

\* the loop of update_fa_repos goes on to the next repository, or ends
NextBuildIteration ==
    IF repo < NRepos
    THEN repo' = repo + 1 /\ pc' = "resolve"
    ELSE repo' = repo /\ pc' = "done"

\* the build or the publishing of the repository failed: the github script
\* prints and returns, the other script prints and goes on
AfterFailure ==
    IF script = LatestGithubTagScript
    THEN repo' = repo /\ pc' = "done"
    ELSE NextBuildIteration

\* latest_tag = get_latest_tag / get_latest_github_tag / get_latest_local_tag;
\* "if latest_tag is None: return"
GetLatestTag ==
    /\ pc = "resolve"
    /\ \E out \in {"ok", "no_repo", "error"} :
         \* the host lookup raises GithubException, which is caught
         /\ out = "no_repo" => HostMode
         /\ IF out = "error"
            THEN \* an exception that is not caught: a failed commit lookup,
                 \* or Repo(repo_path) on a missing working copy
                 /\ pc' = "crashed"
                 /\ UNCHANGED <<repo, latest_tag, calls>>
            ELSE /\ latest_tag' = resolve_latest(out, markers[repo])
                 /\ calls' =
                      calls \o RepoLookup(out)
                        \o (IF latest_tag' = {} THEN <<>>
                            ELSE Lookups(markers[repo]))
                        \o <<[repo |-> repo, cmd |-> "get_latest_tag",
                              ok |-> latest_tag' # {}]>>
                 /\ pc' = IF latest_tag' = {} THEN "done" ELSE "build"
                 /\ repo' = repo
    /\ UNCHANGED <<script, github_access_token, docker_access_token, markers,
                   timezone>>
    /\ UNCHANGED <<run, tag_date, push, content, offset, match, diff, tag,
                   work, index, commits, tags, remoteBranch, remoteTags, made>>
    /\ UNCHANGED <<imageVars, replaced>>

\* the value update_fa_repos gets back and tests with "if not": from
\* build_and_push_tag, build_and_push_github_tag or
\* build_image_from_local_tag
Returned(log, ok) == Append(log, [repo |-> repo, cmd |-> "return", ok |-> ok])

\* mutant of BuildImage: the exit status of the build is not tested
BuildImageUnchecked ==
    /\ pc = "build"
    /\ \E returncode \in {0, 1} :
         /\ calls' = IF Publishes
                     THEN Logged("build", returncode = 0)
                     ELSE Returned(Logged("build", returncode = 0), TRUE)
         /\ IF Publishes
            THEN repo' = repo /\ pc' = "login"
            ELSE NextBuildIteration
    /\ UNCHANGED <<script, github_access_token, docker_access_token,
                   latest_tag, markers, timezone>>
    /\ UNCHANGED <<run, tag_date, push, content, offset, match, diff, tag,
                   work, index, commits, tags, remoteBranch, remoteTags, made>>
    /\ UNCHANGED <<imageVars, replaced>>

\* build_image_from_tag / build_image_from_github_tag /
\* build_image_from_local_tag: subprocess.run(build_command)
BuildImage ==
    /\ pc = "build"
    /\ \E returncode \in {0, 1} :
         IF returncode # 0
         THEN /\ calls' = Returned(Logged("build", FALSE), FALSE)
              /\ AfterFailure
         ELSE IF Publishes
              THEN /\ calls' = Logged("build", TRUE)
                   /\ repo' = repo
                   /\ pc' = "login"
              ELSE /\ calls' = Returned(Logged("build", TRUE), TRUE)
                   /\ NextBuildIteration
    /\ UNCHANGED <<script, github_access_token, docker_access_token,
                   latest_tag, markers, timezone>>
    /\ UNCHANGED <<run, tag_date, push, content, offset, match, diff, tag,
                   work, index, commits, tags, remoteBranch, remoteTags, made>>
    /\ UNCHANGED <<imageVars, replaced>>

\* mutant of RunStep: the exit status of the step is not tested
RunStepUnchecked(cmd, returncode, next) ==
    /\ calls' = Logged(cmd, returncode = 0)
    /\ repo' = repo
    /\ pc' = next

\* push_image_to_dockerhub: one subprocess.run and the test of its exit
\* status, "return False" on failure
RunStep(cmd, returncode, next) ==
    IF returncode # 0
    THEN /\ calls' = Returned(Logged(cmd, FALSE), FALSE)
         /\ AfterFailure
    ELSE /\ calls' = Logged(cmd, TRUE)
         /\ repo' = repo
         /\ pc' = next

\* push_image_to_dockerhub: subprocess.run(login_command)
DockerLogin ==
    /\ pc = "login"
    /\ \/ \E returncode \in {0, 1} : RunStep("login", returncode, "push")
       \/ \* build_and_push_tag hands on a credential of None: the argument
          \* list of subprocess.run holds None, which raises TypeError
          /\ ~docker_access_token
          /\ pc' = "crashed"
          /\ UNCHANGED <<repo, calls>>
    /\ UNCHANGED <<script, github_access_token, docker_access_token,
                   latest_tag, markers, timezone>>
    /\ UNCHANGED <<run, tag_date, push, content, offset, match, diff, tag,
                   work, index, commits, tags, remoteBranch, remoteTags, made>>
    /\ UNCHANGED <<imageVars, replaced>>

\* push_image_to_dockerhub: subprocess.run(push_command) for the image
DockerPush ==
    /\ pc = "push"
    /\ \E returncode \in {0, 1} : RunStep("push", returncode, "tag")
    /\ UNCHANGED <<script, github_access_token, docker_access_token,
                   latest_tag, markers, timezone>>
    /\ UNCHANGED <<run, tag_date, push, content, offset, match, diff, tag,
                   work, index, commits, tags, remoteBranch, remoteTags, made>>
    /\ UNCHANGED <<imageVars, replaced>>

\* push_image_to_dockerhub: subprocess.run(tag_command)
DockerTag ==
    /\ pc = "tag"
    /\ \E returncode \in {0, 1} : RunStep("tag", returncode, "push_latest")
    /\ UNCHANGED <<script, github_access_token, docker_access_token,
                   latest_tag, markers, timezone>>
    /\ UNCHANGED <<run, tag_date, push, content, offset, match, diff, tag,
                   work, index, commits, tags, remoteBranch, remoteTags, made>>
    /\ UNCHANGED <<imageVars, replaced>>

\* push_image_to_dockerhub: subprocess.run(push_command) for :latest,
\* "return True" at the end
DockerPushLatest ==
    /\ pc = "push_latest"
    /\ \E returncode \in {0, 1} :
         IF returncode # 0
         THEN /\ calls' = Returned(Logged("push_latest", FALSE), FALSE)
              /\ AfterFailure
         ELSE /\ calls' = Returned(Logged("push_latest", TRUE), TRUE)
              /\ NextBuildIteration
    /\ UNCHANGED <<script, github_access_token, docker_access_token,
                   latest_tag, markers, timezone>>
    /\ UNCHANGED <<run, tag_date, push, content, offset, match, diff, tag,
                   work, index, commits, tags, remoteBranch, remoteTags, made>>
    /\ UNCHANGED <<imageVars, replaced>>

\* update_fa_repos of either build script has just been called
InitBuild ==
    /\ pc = "resolve"
    /\ repo = 1
    /\ script \in {LatestTagScript, LatestGithubTagScript}
    /\ github_access_token \in BOOLEAN
    /\ script = LatestGithubTagScript => github_access_token
    /\ docker_access_token \in BOOLEAN
    /\ latest_tag = {}
    /\ markers \in [Fleet -> RepoMarkerLists]
    /\ timezone \in Zones
    /\ calls = <<>>
    /\ run = 0
    /\ tag_date = MainTagDate
    /\ push = FALSE
    /\ content = <<>>
    /\ offset = 0
    /\ replaced = 0
    /\ match = NoMatch
    /\ diff = FALSE
    /\ tag = {}
    /\ made = [r \in Fleet |-> <<>>]
    /\ work = [r \in Fleet |-> Tree(OldRecipe, "v1")]
    /\ index = [r \in Fleet |-> Tree(OldRecipe, "v1")]
    /\ commits = [r \in Fleet |-> <<Tree(OldRecipe, "v1")>>]
    /\ tags = [r \in Fleet |-> {}]
    /\ remoteBranch = [r \in Fleet |-> 1]
    /\ remoteTags = [r \in Fleet |-> {}]
    /\ NoImage

NextBuild ==
    \/ GetLatestTag
    \/ BuildImage
    \/ DockerLogin
    \/ DockerPush
    \/ DockerTag
    \/ DockerPushLatest

SpecBuild == InitBuild /\ [][NextBuild]_vars

\* ------------------------------------------------- the resolver on its own
MarkerNames == <<"m1", "m2", "m3", "m4", "m5", "m6">>

Times == TimeBase..(TimeBase + MaxTime)

\* every enumeration of up to MaxMarkers tags with any commit times
MarkerLists ==
    {[k \in 1..n |-> [name |-> MarkerNames[k], date |-> ds[k]]] :
       n \in 0..MaxMarkers, ds \in [1..MaxMarkers -> Times]}

\* update_fa_repos is about to resolve the first repository
InitResolve ==
    /\ pc = "resolve"
    /\ repo = 1
    /\ script \in {LatestTagScript, LatestGithubTagScript}
    /\ github_access_token \in BOOLEAN
    /\ script = LatestGithubTagScript => github_access_token
    /\ docker_access_token = FALSE
    /\ latest_tag = {}
    /\ \E ms \in MarkerLists : markers = [r \in Fleet |-> ms]
    /\ timezone \in Zones
    /\ calls = <<>>
    /\ run = 0
    /\ tag_date = MainTagDate
    /\ push = FALSE
    /\ content = <<>>
    /\ offset = 0
    /\ replaced = 0
    /\ match = NoMatch
    /\ diff = FALSE
    /\ tag = {}
    /\ made = [r \in Fleet |-> <<>>]
    /\ work = [r \in Fleet |-> Tree(OldRecipe, "v1")]
    /\ index = [r \in Fleet |-> Tree(OldRecipe, "v1")]
    /\ commits = [r \in Fleet |-> <<Tree(OldRecipe, "v1")>>]
    /\ tags = [r \in Fleet |-> {}]
    /\ remoteBranch = [r \in Fleet |-> 1]
    /\ remoteTags = [r \in Fleet |-> {}]
    /\ NoImage

NextResolve == GetLatestTag

SpecResolve == InitResolve /\ [][NextResolve]_vars

\* ------------------------------------------- the image reference on its own
DockerPrefix == <<"d", "o", "c", "k", "e", "r", "-">>

\* mutant of HasDockerPrefix: the test leaves out the hyphen
HasDockerWord(name) ==
    Slice(name, 0, Len(DockerPrefix) - 1) = Slice(DockerPrefix, 0, Len(DockerPrefix) - 1)

\* the repository name starts with 'docker-': repo_name[0:7] == "docker-"
HasDockerPrefix(name) == Slice(name, 0, Len(DockerPrefix)) = DockerPrefix

\* docker_tag = f"{docker_login}/{docker_image}:{tag}" with
\* docker_image = repo_name[7:]
docker_tag(name, login, t) ==
    login \o <<"/">> \o SliceFrom(name, Len(DockerPrefix)) \o <<":">> \o t

\* mutant of find: str.rfind, the last occurrence
rfind(s, c) ==
    IF \E k \in 1..Len(s) : s[k] = c
    THEN (CHOOSE k \in 1..Len(s) : s[k] = c /\ \A j \in (k + 1)..Len(s) : s[j] # c) - 1
    ELSE -1

\* str.find of one character: the 0-based index of its first occurrence, or -1
find(s, c) ==
    IF \E k \in 1..Len(s) : s[k] = c
    THEN Min({k \in 1..Len(s) : s[k] = c}) - 1
    ELSE -1

\* latest_tag of push_image_to_dockerhub for image reference t
latest_tag_of(t) ==
    LET username_end == find(t, "/")
        username == Slice(t, 0, username_end)
        image_name_end == find(t, ":")
        image_name == Slice(t, username_end + 1, image_name_end)
    IN  username \o <<"/">> \o image_name \o <<":", "l", "a", "t", "e", "s", "t">>

PublishSteps == <<"login", "push", "tag", "push_latest">>

\* build_image_from_tag / build_image_from_github_tag /
\* build_image_from_local_tag with their arguments
BuildImageFromTag ==
    /\ pc = "build_image"
    /\ IF ~HasDockerPrefix(repo_name)
       THEN \* AssertionError, which nothing catches
            /\ pc' = "crashed"
            /\ UNCHANGED <<calls, image_tag>>
       ELSE \E returncode \in {0, 1} :
              IF returncode # 0
              THEN /\ calls' = Returned(Logged("build", FALSE), FALSE)
                   /\ image_tag' = <<>>
                   /\ pc' = "done"
              ELSE /\ image_tag' = docker_tag(repo_name, docker_login, github_repo_tag)
                   /\ IF Publishes
                      THEN calls' = Logged("build", TRUE) /\ pc' = "push_image"
                      ELSE calls' = Returned(Logged("build", TRUE), TRUE) /\ pc' = "done"
    /\ UNCHANGED <<repo_name, docker_login, github_repo_tag, docker_latest_tag>>
    /\ UNCHANGED <<script, github_access_token, docker_access_token,
                   latest_tag, markers, timezone, repo>>
    /\ UNCHANGED <<run, tag_date, push, content, offset, match, diff, tag,
                   work, index, commits, tags, remoteBranch, remoteTags, made>>
    /\ UNCHANGED replaced

\* push_image_to_dockerhub(docker_access_token, image_tag): the first n steps
\* run, and the last of them has exit status 0 or not
PushImageToDockerhub ==
    /\ pc = "push_image"
    /\ \/ \E n \in 1..Len(PublishSteps), ok \in BOOLEAN :
            /\ n < Len(PublishSteps) => ~ok
            /\ find(image_tag, "/") # -1
            /\ n > 2 => find(image_tag, ":") # -1
            /\ calls' = Returned(
                    calls \o [k \in 1..n |-> [repo |-> repo, cmd |-> PublishSteps[k],
                                              ok |-> k < n \/ ok]], ok)
            /\ docker_latest_tag' =
                    IF n > 2 THEN latest_tag_of(image_tag) ELSE docker_latest_tag
            /\ pc' = "done"
       \/ \* the credential is None and subprocess.run raises TypeError
          /\ ~docker_access_token
          /\ pc' = "crashed"
          /\ UNCHANGED <<calls, docker_latest_tag>>
    /\ UNCHANGED <<repo_name, docker_login, github_repo_tag, image_tag>>
    /\ UNCHANGED <<script, github_access_token, docker_access_token,
                   latest_tag, markers, timezone, repo>>
    /\ UNCHANGED <<run, tag_date, push, content, offset, match, diff, tag,
                   work, index, commits, tags, remoteBranch, remoteTags, made>>
    /\ UNCHANGED replaced

\* what comes before the image name in a repository name
Prefixes ==
    {DockerPrefix, <<"d", "o", "c", "k", "e", "r">>,
     <<"D", "o", "c", "k", "e", "r", "-">>, <<>>}

ImageNames ==
    {<<"c", "p", "p", "-", "g", "c", "c">>, <<"a">>, <<"d", "o", "c", "k", "e", "r", "-", "a">>, <<>>}

RepoNames == {p \o n : p \in Prefixes, n \in ImageNames}

\* Docker hub account names: letters and digits
Accounts == {<<"a", "c", "c", "t">>, <<"f", "a">>}

\* tag names; git allows "/" in them
TagNames == {<<"v", "3">>, <<"v", "1", "/", "r", "c">>, MainTagDate}

\* a build function is about to be called
InitImage ==
    /\ pc = "build_image"
    /\ repo = 1
    /\ repo_name \in RepoNames
    /\ docker_login \in Accounts
    /\ github_repo_tag \in TagNames
    /\ image_tag = <<>>
    /\ docker_latest_tag = <<>>
    /\ script \in {LatestTagScript, LatestGithubTagScript}
    /\ github_access_token \in BOOLEAN
    /\ script = LatestGithubTagScript => github_access_token
    /\ docker_access_token \in BOOLEAN
    /\ latest_tag = {}
    /\ markers = [r \in Fleet |-> <<>>]
    /\ timezone = "UTC"
    /\ calls = <<>>
    /\ run = 0
    /\ tag_date = MainTagDate
    /\ push = FALSE
    /\ content = <<>>
    /\ offset = 0
    /\ replaced = 0
    /\ match = NoMatch
    /\ diff = FALSE
    /\ tag = {}
    /\ made = [r \in Fleet |-> <<>>]
    /\ work = [r \in Fleet |-> Tree(OldRecipe, "v1")]
    /\ index = [r \in Fleet |-> Tree(OldRecipe, "v1")]
    /\ commits = [r \in Fleet |-> <<Tree(OldRecipe, "v1")>>]
    /\ tags = [r \in Fleet |-> {}]
    /\ remoteBranch = [r \in Fleet |-> 1]
    /\ remoteTags = [r \in Fleet |-> {}]

NextImage == BuildImageFromTag \/ PushImageToDockerhub

SpecImage == InitImage /\ [][NextImage]_vars

\* the whole model: either workflow
Init == InitSync \/ InitBuild

Next == NextSync \/ NextBuild

Spec == Init /\ [][Next]_vars

\* -------------------------------------------------- build/publish: claims
\* C1: the build/publish run halts on the first repository for which a step
\* fails: once a logged step (marker resolution, build, login, push, re-tag,
\* push of :latest) has failed, no later call is for another repository.
C1_HaltsOnFirstFailure ==
    \A j, k \in 1..Len(calls) :
        (j < k /\ ~calls[j].ok) => calls[k].repo = calls[j].repo

\* the tags of list ms have pairwise distinct commit times
DistinctTimes(ms) ==
    \A j, k \in 1..Len(ms) : ms[j].date = ms[k].date => j = k

\* C11: for tags with pairwise distinct commit times the resolver returns
\* the tag of the greatest commit time, whatever the enumeration order, in
\* host mode and in local mode.
C11_ReturnsLatestMarker ==
    (pc = "build" /\ DistinctTimes(markers[repo])) =>
        \A k \in 1..Len(markers[repo]) :
            markers[repo][k].name \in latest_tag =>
                \A j \in 1..Len(markers[repo]) :
                    markers[repo][j].date <= markers[repo][k].date

\* the host lookup of repository r failed
LookupFailed(r) ==
    \E j \in 1..Len(calls) :
        calls[j].repo = r /\ calls[j].cmd = "get_repo" /\ ~calls[j].ok

\* C12: the resolver returns None when the repository has no tags, and in
\* host mode when the repository lookup fails; then no commit time is
\* looked up and no build is invoked for that repository.
C12_NotFoundWithoutMarkers ==
    \A k \in 1..Len(calls) :
        (/\ calls[k].cmd = "get_latest_tag"
         /\ (Len(markers[calls[k].repo]) = 0 \/ LookupFailed(calls[k].repo))) =>
            /\ ~calls[k].ok
            /\ \A j \in 1..Len(calls) :
                   calls[j].repo = calls[k].repo =>
                       calls[j].cmd \notin {"commit_date", "build"}

\* C12 witness: the lookup of a repository that has tags failed, the
\* resolver returned None and the run has returned.
C12_Witness ==
    /\ pc = "done"
    /\ latest_tag = {}
    /\ LookupFailed(repo)
    /\ Len(markers[repo]) > 0
    /\ calls[Len(calls)] = [repo |-> repo, cmd |-> "get_latest_tag", ok |-> FALSE]

\* the entries of the call log that publish
PublishCmds == {"login", "push", "tag", "push_latest"}

\* the call log holds entry e at position k
EntryAt(k, e) == k >= 1 /\ k <= Len(calls) /\ calls[k] = e

\* no call that publishes was made for repository r
NoPublishCall(r) ==
    \A j \in 1..Len(calls) :
        calls[j].repo = r => calls[j].cmd \notin PublishCmds

\* C13: when the build tool exits non-zero the orchestrator returns Failure
\* and makes no login, push or re-tag call for that repository.
C13_FailedBuildReturnsFailure ==
    \A k \in 1..Len(calls) :
        (calls[k].cmd = "build" /\ ~calls[k].ok) =>
            /\ EntryAt(k + 1, [repo |-> calls[k].repo, cmd |-> "return", ok |-> FALSE])
            /\ NoPublishCall(calls[k].repo)

\* C13 witness: a build of the script that publishes failed, with a
\* credential at hand, and the call has returned.
C13_Witness ==
    /\ Publishes
    /\ docker_access_token
    /\ Len(calls) >= 2
    /\ calls[Len(calls) - 1] = [repo |-> repo, cmd |-> "build", ok |-> FALSE]
    /\ calls[Len(calls)].cmd = "return"

\* after the successful build at position k of the log, made without a
\* publish credential, the call returned success and published nothing
BuildOnlyAt(k) ==
    /\ EntryAt(k + 1, [repo |-> calls[k].repo, cmd |-> "return", ok |-> TRUE])
    /\ NoPublishCall(calls[k].repo)

\* C14 as stated: without a publish credential a successful build is
\* followed by a return of success and by no login, push or re-tag, for
\* build_and_push_github_tag and for build_and_push_tag.
C14_Original ==
    \A k \in 1..Len(calls) :
        (calls[k].cmd = "build" /\ calls[k].ok /\ ~docker_access_token) =>
            BuildOnlyAt(k)

\* C14 amended: without a publish credential a successful build of
\* build_and_push_github_tag (and of the local build of the same script) is
\* followed by a return of success and by no login, push or re-tag;
\* build_and_push_tag has no such case, it always goes on to the login.
C14_BuildOnlyWithoutCredential ==
    \A k \in 1..Len(calls) :
        (/\ calls[k].cmd = "build"
         /\ calls[k].ok
         /\ ~docker_access_token
         /\ script = LatestTagScript) =>
            BuildOnlyAt(k)

\* C14 witness: build_and_push_github_tag has built an image without a
\* publish credential and returned.
C14_Witness ==
    /\ script = LatestTagScript
    /\ github_access_token
    /\ ~docker_access_token
    /\ \E k \in 1..Len(calls) :
          /\ calls[k] = [repo |-> 1, cmd |-> "build", ok |-> TRUE]
          /\ BuildOnlyAt(k)

\* the call that precedes each publishing step
StepBefore(cmd) ==
    CASE cmd = "login" -> "build"
      [] cmd = "push" -> "login"
      [] cmd = "tag" -> "push"
      [] cmd = "push_latest" -> "tag"

\* C15: publishing runs login, push, re-tag as :latest, push of :latest in
\* this order; each step runs only right after the success of the step
\* before it, a failed step is followed by the return of Failure, and no
\* call undoes an earlier step.
C15_PublishStepsInOrder ==
    \A k \in 1..Len(calls) :
        /\ calls[k].cmd \in PublishCmds \union
                             {"get_repo", "commit_date", "get_latest_tag",
                              "build", "return"}
        /\ calls[k].cmd \in PublishCmds =>
              /\ EntryAt(k - 1, [repo |-> calls[k].repo,
                                 cmd |-> StepBefore(calls[k].cmd), ok |-> TRUE])
              /\ ~calls[k].ok =>
                    EntryAt(k + 1, [repo |-> calls[k].repo, cmd |-> "return",
                                    ok |-> FALSE])

\* C15 witness: the primary push succeeded, the re-tag failed, the call
\* returned Failure and the log ends there for this repository.
C15_Witness ==
    /\ Len(calls) >= 4
    /\ calls[Len(calls) - 3] = [repo |-> repo, cmd |-> "login", ok |-> TRUE]
    /\ calls[Len(calls) - 2] = [repo |-> repo, cmd |-> "push", ok |-> TRUE]
    /\ calls[Len(calls) - 1] = [repo |-> repo, cmd |-> "tag", ok |-> FALSE]
    /\ calls[Len(calls)] = [repo |-> repo, cmd |-> "return", ok |-> FALSE]

\* C16: whenever a build succeeds and a publish credential is supplied the
\* login follows, when the source is the host and when it is the local
\* working copy.
C16_PublishesWhenCredentialGiven ==
    \A k \in 1..Len(calls) :
        (calls[k].cmd = "build" /\ calls[k].ok /\ docker_access_token) =>
            IF k = Len(calls)
            THEN pc = "login" /\ repo = calls[k].repo
            ELSE calls[k + 1].cmd = "login" /\ calls[k + 1].repo = calls[k].repo

\* the text after the first seven characters of the repository name
ImageOf(name) == SubSeq(name, 8, Len(name))

\* the repository name starts with the seven characters docker-
Prefixed(name) ==
    /\ Len(name) >= 7
    /\ SubSeq(name, 1, 7) = <<"d", "o", "c", "k", "e", "r", "-">>

\* C17: the image reference is account/image:marker, image being the
\* repository name without its 'docker-' prefix ('docker-cpp-gcc', 'acct',
\* 'v3' give 'acct/cpp-gcc:v3'), and the alias derived while publishing is
\* account/image:latest.
C17_ImageReference ==
    /\ image_tag # <<>> =>
          /\ Prefixed(repo_name)
          /\ image_tag = docker_login \o <<"/">> \o ImageOf(repo_name)
                            \o <<":">> \o github_repo_tag
    /\ docker_latest_tag # <<>> =>
          docker_latest_tag = docker_login \o <<"/">> \o ImageOf(repo_name)
                                \o <<":", "l", "a", "t", "e", "s", "t">>
    /\ (/\ image_tag # <<>>
        /\ repo_name = <<"d", "o", "c", "k", "e", "r", "-", "c", "p", "p", "-", "g", "c", "c">>
        /\ docker_login = <<"a", "c", "c", "t">>
        /\ github_repo_tag = <<"v", "3">>) =>
          image_tag = <<"a", "c", "c", "t", "/", "c", "p", "p", "-", "g", "c", "c", ":", "v", "3">>

\* C17 witness: a repository built from a tag whose name holds a "/" has
\* been published under its alias.
C17_Witness ==
    /\ pc = "done"
    /\ github_repo_tag = <<"v", "1", "/", "r", "c">>
    /\ image_tag = <<"a", "c", "c", "t", "/", "c", "p", "p", "-", "g", "c", "c", ":", "v", "1", "/", "r", "c">>
    /\ docker_latest_tag = <<"a", "c", "c", "t", "/", "c", "p", "p", "-", "g", "c", "c", ":", "l", "a", "t", "e", "s", "t">>

\* C18: a repository name without the 'docker-' prefix ends the run at once:
\* the build tool is not invoked and no result, Failure or other, is
\* returned.
C18_MissingPrefixIsFatal ==
    (~Prefixed(repo_name) /\ pc # "build_image") =>
        /\ pc = "crashed"
        /\ calls = <<>>
        /\ image_tag = <<>>

\* C18 witness: the build function was called with the name 'dockera' and
\* the run has ended.
C18_Witness ==
    /\ repo_name = <<"d", "o", "c", "k", "e", "r", "a">>
    /\ pc = "crashed"

\* ------------------------------------------------ release sync: claims
\* the call of the committer for repository r in the current run returned
Completed(r) == run >= 1 /\ (r < repo \/ pc = "done")

\* C2: a failure of any step in one repository does not block the others:
\* when processing of a repository ends in a failure, every later repository
\* is still processed, so the run can only end at the last repository.
C2_FailureDoesNotBlockOthers == pc = "crashed" => repo = NRepos

\* C3: when push is false, processing performs no operation on the remote:
\* no step taken while push is false changes the remote's branch or tags.
C3_NoRemoteChangeWithoutPush ==
    [][push = FALSE => UNCHANGED <<remoteBranch, remoteTags>>]_vars

\* C4: two calls in a row on the same working copy with the same new content
\* create exactly one commit: the second commit step of a repository never
\* creates a commit, whatever state the working copy started in.
C4_SecondCallCreatesNoCommit ==
    \A r \in Fleet : Len(made[r]) >= 2 => ~made[r][2]

\* C5: after every completed committer call the local tag named by the ISO
\* release date exists and points at the tip, whether or not a commit was
\* created and whether or not the tag existed before.
C5_TagAtTipAfterCall ==
    \A r \in Fleet :
        Completed(r) => new_tag(TagDateIso(tag_date), r) \in tags[r]

\* C5 witness: the last call created no commit, found a tag of the release
\* date already present, and left the tag on the tip.
C5_Witness ==
    /\ pc = "done"
    /\ diff = FALSE
    /\ tag # {}
    /\ new_tag(TagDateIso(tag_date), repo) \in tags[repo]

\* C6: an existing tag of the release date is replaced, not an error: no two
\* local tags ever share a name, the tag is never created while the name is
\* taken, and after a completed call the only tag of that name is on the tip.
C6_TagReplaced ==
    /\ \A r \in Fleet : \A t1, t2 \in tags[r] : t1.name = t2.name => t1 = t2
    /\ pc = "create_tag" => ~tag_exists(tags[repo], TagDateIso(tag_date))
    /\ \A r \in Fleet :
         Completed(r) =>
           {t \in tags[r] : t.name = TagDateIso(tag_date)}
             = {new_tag(TagDateIso(tag_date), r)}

\* C6 witness: the call found the release date tagged on an older commit and
\* returned with the tag on the tip.
C6_Witness ==
    /\ pc = "done"
    /\ tag # {}
    /\ \A t \in tag : t.commit # Tip(repo)
    /\ new_tag(TagDateIso(tag_date), repo) \in tags[repo]

\* ------------------------------------------------------ rewrite: claims
\* the recipe text as the run found it: the file is not written before "write"
Original == work[repo]["Dockerfile"]

\* eight consecutive digits start after position p of t
EightDigitsAt(t, p) ==
    /\ p + 8 <= Len(t)
    /\ \A k \in 1..8 : t[p + k] \in Digits

\* a substring of the form dddd-dd-dd starts after position p of t
IsoShapeAt(t, p) ==
    /\ p + 10 <= Len(t)
    /\ \A k \in {1, 2, 3, 4, 6, 7, 9, 10} : t[p + k] \in Digits
    /\ t[p + 5] = "-"
    /\ t[p + 8] = "-"

\* character q of t lies in a run of exactly eight digits
InCompactToken(t, q) ==
    \E p \in 0..Len(t) :
        /\ p < q /\ q <= p + 8
        /\ EightDigitsAt(t, p)
        /\ (p = 0 \/ t[p] \notin Digits)
        /\ (p + 8 = Len(t) \/ t[p + 9] \notin Digits)

\* character q of t lies in a substring of the form dddd-dd-dd
InIsoToken(t, q) ==
    \E p \in 0..Len(t) : p < q /\ q <= p + 10 /\ IsoShapeAt(t, p)

\* neither date pattern occurs in t
NoDateIn(t) ==
    \A p \in 0..Len(t) : ~EightDigitsAt(t, p) /\ ~IsoShapeAt(t, p)

\* C7: the rewrite is idempotent: the text the two loops leave is the
\* rewrite of the original, and rewriting it again with the same date gives
\* the same text.
C7_RewriteIdempotent ==
    pc = "write" =>
        /\ content = Rewrite(Original, tag_date)
        /\ Rewrite(content, tag_date) = content

\* C7 witness: both loops replaced something and the rewrite has finished.
C7_Witness ==
    /\ pc = "write"
    /\ \E p \in 0..Len(Original) : EightDigitsAt(Original, p)
    /\ \E p \in 0..Len(Original) : IsoShapeAt(Original, p)
    /\ content # Original

\* C8: after the rewrite every substring of eight consecutive digits is the
\* new date and every substring of the form dddd-dd-dd is its ISO form.
C8_EveryDateTokenIsNew ==
    pc = "write" =>
        \A p \in 0..Len(content) :
            /\ EightDigitsAt(content, p) =>
                 SubSeq(content, p + 1, p + 8) = tag_date
            /\ IsoShapeAt(content, p) =>
                 SubSeq(content, p + 1, p + 10) = TagDateIso(tag_date)

\* C9: the rewrite alters no character outside a date token: a character of
\* the original that is neither in a run of exactly eight digits nor in a
\* substring dddd-dd-dd is unchanged at its position.
C9_OnlyDateTokensAltered ==
    pc = "write" =>
        \A q \in 1..Len(Original) :
            (~InCompactToken(Original, q) /\ ~InIsoToken(Original, q)) =>
                (q <= Len(content) /\ content[q] = Original[q])

\* C10: a text in which neither pattern occurs is left unchanged by both
\* loops, and the run goes on normally: after the file was read the run is
\* in no error state.
C10_NoMatchUnchanged ==
    /\ (pc \in {"compact", "iso", "write"} /\ NoDateIn(Original)) =>
           content = Original
    /\ pc = "crashed" => content = <<>>

\* C10 witness: a text of ten or more characters with digits but no date has
\* gone through both loops.
C10_Witness ==
    /\ pc = "write"
    /\ NoDateIn(Original)
    /\ Len(Original) >= 10
    /\ \E q \in 1..Len(Original) : Original[q] \in Digits
    /\ content = Original

\* the tag of the release date on the tip of repository r
ReleaseTagAtTip(r) ==
    [name |-> TagDateIso(tag_date), commit |-> Len(commits[r])]

\* C19: with push set, the pushes of a repository start only once its commit
\* step is over and its tag is created, the branch is pushed before the tag
\* and to the tip, and no push step, failed or not, changes the local
\* commits, tags, index or working copy.
C19_PushAfterCommitAndTag ==
    [][/\ (pc' = "push_branch" /\ pc # "push_branch") =>
            /\ push
            /\ pc = "create_tag"
            /\ Len(made'[repo']) = run
            /\ ReleaseTagAtTip(repo)' \in tags'[repo']
       /\ (pc' = "push_tag" /\ pc # "push_tag") => pc = "push_branch"
       /\ remoteBranch' # remoteBranch =>
            /\ pc = "push_branch"
            /\ remoteBranch' = [remoteBranch EXCEPT ![repo] = Len(commits[repo])]
       /\ pc \in {"push_branch", "push_tag"} =>
            /\ UNCHANGED <<commits, tags, index, work>>
            /\ ReleaseTagAtTip(repo) \in tags[repo]
       /\ (pc = "push_tag" /\ remoteTags' # remoteTags) =>
            remoteTags' = [remoteTags EXCEPT
                             ![repo] = @ \cup {ReleaseTagAtTip(repo)}]
      ]_vars

\* C19 witness: in the first call a commit was made and tagged, then a push
\* raised; the commit and the tag are in place and the remote branch is
\* behind.
C19_Witness ==
    /\ pc = "crashed"
    /\ push
    /\ run = 1
    /\ made[repo] = <<TRUE>>
    /\ ReleaseTagAtTip(repo) \in tags[repo]
    /\ remoteBranch[repo] < Len(commits[repo])

\* the number of commits the commit steps made in repository r
CommitsMade(r) == Cardinality({j \in 1..Len(made[r]) : made[r][j]})

\* C20: a commit is created only when the recipe differs from its committed
\* content, and the commit changes no other file, whatever the state of the
\* other tracked files.
C20_CommitHoldsOnlyRecipe ==
    \A r \in Fleet :
        \A k \in (Len(commits[r]) - CommitsMade(r) + 1)..Len(commits[r]) :
            /\ commits[r][k]["Dockerfile"] # commits[r][k - 1]["Dockerfile"]
            /\ commits[r][k]["README"] = commits[r][k - 1]["README"]

\* the positions of the tags of list ms that have its greatest commit time
LatestPositions(ms) ==
    {k \in 1..Len(ms) : \A j \in 1..Len(ms) : ms[j].date <= ms[k].date}

\* C21: when several tags share the greatest commit time the resolver
\* returns the one of them that is enumerated first, in host mode and in
\* local mode.
C21_FirstSeenWinsOnTies ==
    (pc = "build" /\ Cardinality(LatestPositions(markers[repo])) >= 2) =>
        \E k \in LatestPositions(markers[repo]) :
            /\ latest_tag = {markers[repo][k].name}
            /\ \A j \in LatestPositions(markers[repo]) : k <= j

\* the class of a character: digit, hyphen or other
CharClass(c) == IF c \in Digits THEN "digit" ELSE IF c = "-" THEN "-" ELSE "other"

\* the starts of the leftmost non-overlapping runs of eight digits of t, at
\* or after position from
RECURSIVE CompactStarts(_, _)
CompactStarts(t, from) ==
    LET ps == {p \in from..Len(t) : EightDigitsAt(t, p)}
    IN  IF ps = {} THEN {}
        ELSE LET p == CHOOSE x \in ps : \A y \in ps : x <= y
             IN  {p} \union CompactStarts(t, p + 8)

\* the starts of the leftmost non-overlapping substrings dddd-dd-dd of t, at
\* or after position from
RECURSIVE IsoStarts(_, _)
IsoStarts(t, from) ==
    LET ps == {p \in from..Len(t) : IsoShapeAt(t, p)}
    IN  IF ps = {} THEN {}
        ELSE LET p == CHOOSE x \in ps : \A y \in ps : x <= y
             IN  {p} \union IsoStarts(t, p + 10)

\* text t with new written over the substrings that start at the positions ps
Overwritten(t, ps, new) ==
    [q \in 1..Len(t) |->
        IF \E p \in ps : p < q /\ q <= p + Len(new)
        THEN new[q - (CHOOSE p \in ps : p < q /\ q <= p + Len(new))]
        ELSE t[q]]

\* the text as it stands when the ISO pass starts
AfterCompactPass == Overwritten(Original, CompactStarts(Original, 0), tag_date)

\* the new date in the form dddd-dd-dd
IsoDate ==
    <<tag_date[1], tag_date[2], tag_date[3], tag_date[4], "-",
      tag_date[5], tag_date[6], "-", tag_date[7], tag_date[8]>>

\* a pass over text t with the match starts all, at scan offset off: the
\* matches before off are replaced and no other, the offset is 0 or the end
\* of a match, and the pending match is the first one at or after off
PassState(t, all, width, new) ==
    /\ offset = 0 \/ \E p \in all : offset = p + width
    /\ content = Overwritten(t, {p \in all : p < offset}, new)
    /\ match.found <=> \E p \in all : p >= offset
    /\ match.found =>
          /\ offset + match.start \in all
          /\ \A p \in all : p >= offset => offset + match.start <= p
          /\ match.end = match.start + width

\* C22: the two scan-and-replace loops keep the length of the text and the
\* class (digit, hyphen, other) of every position, and each pass replaces
\* exactly the leftmost non-overlapping matches of its pattern in the text
\* as it stood when the pass started, skipping and re-matching nothing.
C22_LoopsReplaceLeftmostMatches ==
    pc \in {"compact", "iso", "write"} =>
        /\ Len(content) = Len(Original)
        /\ \A q \in 1..Len(Original) : CharClass(content[q]) = CharClass(Original[q])
        /\ pc = "compact" =>
              PassState(Original, CompactStarts(Original, 0), 8, tag_date)
        /\ pc = "iso" =>
              PassState(AfterCompactPass, IsoStarts(AfterCompactPass, 0), 10, IsoDate)
        /\ pc = "write" =>
              content = Overwritten(AfterCompactPass,
                                    IsoStarts(AfterCompactPass, 0), IsoDate)

\* C22 witness: the compact pass replaced two runs out of more than sixteen
\* digits and the ISO pass has ended.
C22_Witness ==
    /\ pc = "write"
    /\ Cardinality(CompactStarts(Original, 0)) >= 2
    /\ \E p \in 0..Len(Original) :
          EightDigitsAt(Original, p) /\ p \notin CompactStarts(Original, 0)
    /\ content # Original

\* C23: both loops end for every text and date: in each pass through a loop
\* body the scan offset grows, by the width of a match at least, and stays
\* within the text, so the compact loop replaces at most floor(len/8) times
\* and the ISO loop at most floor(len/10) times, and the rewrite reaches its
\* end.
C23_LoopsTerminate ==
    /\ [](pc = "compact" =>
            /\ 8 * replaced <= offset
            /\ offset <= Len(content)
            /\ replaced <= Len(Original) \div 8)
    /\ [](pc \in {"iso", "write"} =>
            /\ 10 * replaced <= offset
            /\ offset <= Len(content)
            /\ replaced <= Len(Original) \div 10)
    /\ [][(pc \in {"compact", "iso"} /\ pc' = pc) => offset' > offset]_vars
    /\ <>(pc \in {"write", "crashed"})

\* C23 witness: the compact loop has replaced twice in a text of sixteen to
\* twenty-three characters, as often as the bound allows, and is about to
\* end.
C23_Witness ==
    /\ pc = "compact"
    /\ ~match.found
    /\ replaced = 2
    /\ Len(Original) \div 8 = 2

====
